---- MODULE Spec2Model ----
(***************************************************************************)
(* Model of src/server.js: the retrying request helper makeRequest and the *)
(* GET /search handler that filters the five mock listings.                *)
(*                                                                         *)
(* makeRequest is an async function: every await is a point where other    *)
(* calls may run, so one call is a small process with a program counter.   *)
(* Several calls may be outstanding at once (Calls).                       *)
(***************************************************************************)
EXTENDS Integers, Sequences, FiniteSets, TLC

---------------------------------------------------------------------------
(* Bounds of the model *)

\* number of concurrently outstanding makeRequest calls
NumCalls == 2

\* largest value of the `retries` argument that is tried
MaxRetries == 3

Calls == 1..NumCalls

---------------------------------------------------------------------------
(* Program constants *)

\* async function makeRequest(url, retries = 2)
DefaultRetries == 2

\* setTimeout(resolve, 1000 * (i + 1))
BaseDelayMs == 1000

---------------------------------------------------------------------------
(* Inputs *)

\* the url argument: a well-formed absolute URL or a malformed string
Urls == {"wellformed", "malformed"}

\* the values tried for an explicitly given `retries` argument
RetriesArgs == (0 - 1)..MaxRetries

\* response bodies (response.data)
DataSet == {"d1", "d2"}

\* transport-level failures of one axios.get: timeout, connection refused,
\* DNS failure
TransportCodes == {"ECONNABORTED", "ECONNREFUSED", "ENOTFOUND"}

Response(s, d) == [type |-> "response", status |-> s, data |-> d]
NetError(code) == [type |-> "error", code |-> code]
None == [type |-> "none"]

\* the final responses a server may give (redirects are followed inside one
\* axios.get call and are not seen by makeRequest): 200 with any body, or 404
Responses == {Response(200, d) : d \in DataSet} \cup {Response(404, "d1")}

\* what the network can answer to one axios.get(url, ...); a malformed url
\* never gets a response
TransportResults(u) ==
    IF u = "malformed"
    THEN {NetError("ERR_INVALID_URL")}
    ELSE Responses \cup {NetError(code) : code \in TransportCodes}

---------------------------------------------------------------------------
VARIABLES
    pc,         \* pc[c]: position of call c in makeRequest
    url,        \* url[c]: the url argument
    retries,    \* retries[c]: the retries parameter (after defaulting)
    i,          \* i[c]: the loop variable
    attempts,   \* attempts[c]: number of axios.get calls issued so far
    inflight,   \* inflight[c]: axios.get calls issued and not yet settled
    timers,     \* timers[c]: setTimeout timers set and not yet fired
    delays,     \* delays[c]: the delays (ms) of the timers set so far
    lastResult, \* lastResult[c]: what the network answered to the last attempt
    outcome,    \* outcome[c]: how the promise of call c settled
    query,      \* req.query of the last GET /search
    res         \* the response sent for it

reqVars == <<pc, url, retries, i, attempts, inflight, timers, delays,
             lastResult, outcome>>
searchVars == <<query, res>>
vars == <<pc, url, retries, i, attempts, inflight, timers, delays,
          lastResult, outcome, query, res>>

Pending == [kind |-> "pending"]
Returned(v, k) == [kind |-> "returned", value |-> v, attempt |-> k]
Thrown(e) == [kind |-> "thrown", error |-> e]

---------------------------------------------------------------------------
(* axios.get as makeRequest uses it *)


\* variant: validateStatus: () => true
ValidateStatusAny(status) == TRUE

\* axios' default validateStatus; the options at the call give no other
ValidateStatus(status) == status >= 200 /\ status < 300

\* axios.get resolves with the response iff one arrived and its status is valid
Resolves(r) == r.type = "response" /\ ValidateStatus(r.status)

\* the error axios.get rejects with; `attempt` is the identity of the error
\* object, the attempt that created it
ErrorOf(r, k) ==
    [name |-> "AxiosError",
     code |-> IF r.type = "response"
              THEN (IF r.status < 500 THEN "ERR_BAD_REQUEST" ELSE "ERR_BAD_RESPONSE")
              ELSE r.code,
     attempt |-> k]


\* variant: return response.body, a property axios responses do not have
ResponseBody(r) == "undefined"

\* return response.data
ResponseData(r) == r.data

---------------------------------------------------------------------------
(* makeRequest *)

\* for (...; i < retries; ...)
LoopCond(iv, rv) == iv < rv


\* variant: if (i === retries) throw error
IsLastAttemptOffByOne(iv, rv) == iv = rv

\* variant: if (i === 0) throw error
IsFirstAttempt(iv, rv) == iv = 0

\* variant: the throw is missing
IsLastAttemptNever(iv, rv) == FALSE

\* if (i === retries - 1) throw error
IsLastAttempt(iv, rv) == iv = rv - 1


\* variant: 1000 * i
BackoffDelayZeroBased(iv) == BaseDelayMs * iv

\* 1000 * (i + 1)
BackoffDelay(iv) == BaseDelayMs * (iv + 1)

\* makeRequest(url, retries = 2) is called: parameters bound, let i = 0
Invoke(c) ==
    /\ pc[c] = "idle"
    /\ \E u \in Urls, given \in BOOLEAN, r \in RetriesArgs :
          /\ url' = [url EXCEPT ![c] = u]
          /\ retries' = [retries EXCEPT ![c] = IF given THEN r ELSE DefaultRetries]
    /\ i' = [i EXCEPT ![c] = 0]
    /\ pc' = [pc EXCEPT ![c] = "loop"]
    /\ UNCHANGED <<attempts, inflight, timers, delays, lastResult, outcome, searchVars>>


\* variant: the delay is a blocking sleep, no request is issued while any call
\* sleeps
IssueBlocked(c) ==
    /\ pc[c] = "loop"
    /\ i[c] < retries[c]
    /\ \A d \in Calls : pc[d] # "await_timer"
    /\ attempts' = [attempts EXCEPT ![c] = @ + 1]
    /\ inflight' = [inflight EXCEPT ![c] = @ + 1]
    /\ pc' = [pc EXCEPT ![c] = "await_get"]
    /\ UNCHANGED <<url, retries, i, timers, delays, lastResult, outcome, searchVars>>

\* loop test true: the try block calls axios.get and awaits it
Issue(c) ==
    /\ pc[c] = "loop"
    /\ LoopCond(i[c], retries[c])
    /\ attempts' = [attempts EXCEPT ![c] = @ + 1]
    /\ inflight' = [inflight EXCEPT ![c] = @ + 1]
    /\ pc' = [pc EXCEPT ![c] = "await_get"]
    /\ UNCHANGED <<url, retries, i, timers, delays, lastResult, outcome, searchVars>>

\* loop test false: the function body ends, the promise resolves with undefined
FallOut(c) ==
    /\ pc[c] = "loop"
    /\ ~LoopCond(i[c], retries[c])
    /\ outcome' = [outcome EXCEPT ![c] = Returned("undefined", 0)]
    /\ pc' = [pc EXCEPT ![c] = "done"]
    /\ UNCHANGED <<url, retries, i, attempts, inflight, timers, delays, lastResult, searchVars>>

\* the awaited axios.get resolves: return response.data
Resolve(c) ==
    /\ pc[c] = "await_get"
    /\ inflight[c] > 0
    /\ \E r \in TransportResults(url[c]) :
          /\ Resolves(r)
          /\ lastResult' = [lastResult EXCEPT ![c] = r]
          /\ outcome' = [outcome EXCEPT ![c] = Returned(ResponseData(r), attempts[c])]
    /\ inflight' = [inflight EXCEPT ![c] = @ - 1]
    /\ pc' = [pc EXCEPT ![c] = "done"]
    /\ UNCHANGED <<url, retries, i, attempts, timers, delays, searchVars>>


\* variant: the timer promise is not awaited, the loop goes on at once
RejectNoAwait(c) ==
    /\ pc[c] = "await_get"
    /\ inflight[c] > 0
    /\ inflight' = [inflight EXCEPT ![c] = @ - 1]
    /\ \E r \in TransportResults(url[c]) :
          /\ ~Resolves(r)
          /\ IF IsLastAttempt(i[c], retries[c])
             THEN /\ lastResult' = [lastResult EXCEPT ![c] = r]
                  /\ outcome' = [outcome EXCEPT ![c] = Thrown(ErrorOf(r, attempts[c]))]
                  /\ pc' = [pc EXCEPT ![c] = "done"]
                  /\ UNCHANGED <<timers, delays, i>>
             ELSE /\ lastResult' = [lastResult EXCEPT ![c] = None]
                  /\ timers' = [timers EXCEPT ![c] = @ + 1]
                  /\ delays' = [delays EXCEPT ![c] = Append(@, BackoffDelay(i[c]))]
                  /\ i' = [i EXCEPT ![c] = @ + 1]
                  /\ pc' = [pc EXCEPT ![c] = "loop"]
                  /\ UNCHANGED outcome
    /\ UNCHANGED <<url, retries, attempts, searchVars>>

\* the awaited axios.get rejects: the catch block rethrows on the last
\* iteration, otherwise sets the timer and awaits it
Reject(c) ==
    /\ pc[c] = "await_get"
    /\ inflight[c] > 0
    /\ inflight' = [inflight EXCEPT ![c] = @ - 1]
    /\ \E r \in TransportResults(url[c]) :
          /\ ~Resolves(r)
          /\ lastResult' = [lastResult EXCEPT ![c] = r]
          /\ IF IsLastAttempt(i[c], retries[c])
             THEN /\ outcome' = [outcome EXCEPT ![c] = Thrown(ErrorOf(r, attempts[c]))]
                  /\ pc' = [pc EXCEPT ![c] = "done"]
                  /\ UNCHANGED <<timers, delays>>
             ELSE /\ timers' = [timers EXCEPT ![c] = @ + 1]
                  /\ delays' = [delays EXCEPT ![c] = Append(@, BackoffDelay(i[c]))]
                  /\ pc' = [pc EXCEPT ![c] = "await_timer"]
                  /\ UNCHANGED outcome
    /\ UNCHANGED <<url, retries, i, attempts, searchVars>>

\* the timer fires: the catch block ends, i++ and back to the loop test
TimerFire(c) ==
    /\ pc[c] = "await_timer"
    /\ timers[c] > 0
    /\ timers' = [timers EXCEPT ![c] = @ - 1]
    /\ i' = [i EXCEPT ![c] = @ + 1]
    /\ lastResult' = [lastResult EXCEPT ![c] = None]
    /\ pc' = [pc EXCEPT ![c] = "loop"]
    /\ UNCHANGED <<url, retries, attempts, inflight, delays, outcome, searchVars>>

---------------------------------------------------------------------------
(* GET /search *)

\* A JavaScript string is modelled as the sequence of its characters, each a
\* one-character string; "EUR" stands for the euro sign.

UpperChars == <<"A", "B", "C", "D", "E", "F", "G", "H", "I", "J", "K", "L", "M",
                "N", "O", "P", "Q", "R", "S", "T", "U", "V", "W", "X", "Y", "Z">>
LowerChars == <<"a", "b", "c", "d", "e", "f", "g", "h", "i", "j", "k", "l", "m",
                "n", "o", "p", "q", "r", "s", "t", "u", "v", "w", "x", "y", "z">>

\* String.prototype.toLowerCase
ToLowerCase(s) ==
    [k \in 1..Len(s) |->
        IF \E j \in 1..Len(UpperChars) : UpperChars[j] = s[k]
        THEN LowerChars[CHOOSE j \in 1..Len(UpperChars) : UpperChars[j] = s[k]]
        ELSE s[k]]

\* String.prototype.includes
Includes(s, t) ==
    \E k \in 0..(Len(s) - Len(t)) : SubSeq(s, k + 1, k + Len(t)) = t

DecDigits == <<"0", "1", "2", "3", "4", "5", "6", "7", "8", "9">>
HexDigits == DecDigits \o <<"a", "b", "c", "d", "e", "f">>

\* the regular expression class \d
IsDigit(ch) == \E j \in 1..Len(DecDigits) : DecDigits[j] = ch

\* item.price.replace(/[^\d]/g, '')
StripNonDigits(s) == SelectSeq(s, IsDigit)

\* the value of character ch as a digit of the radix, or -1
DigitValue(ch, radix) ==
    LET lc == ToLowerCase(<<ch>>)[1]
        digs == IF radix = 16 THEN HexDigits ELSE DecDigits
    IN IF \E j \in 1..Len(digs) : digs[j] = lc
       THEN (CHOOSE j \in 1..Len(digs) : digs[j] = lc) - 1
       ELSE 0 - 1

RECURSIVE TrimStart(_)
TrimStart(s) == IF s # <<>> /\ Head(s) = " " THEN TrimStart(Tail(s)) ELSE s

RECURSIVE ParseDigits(_, _, _, _)
\* the longest prefix of s made of digits of the radix, as a number; seen
\* tells whether a digit was read
ParseDigits(s, radix, acc, seen) ==
    IF s # <<>> /\ DigitValue(Head(s), radix) >= 0
    THEN ParseDigits(Tail(s), radix, acc * radix + DigitValue(Head(s), radix), TRUE)
    ELSE [nan |-> ~seen, n |-> acc]

NaN == [nan |-> TRUE, n |-> 0]

\* parseInt(string) without a radix: leading white space, a sign, an optional
\* 0x prefix, then the longest prefix of digits; NaN when there is none
ParseInt(str) ==
    LET s1 == TrimStart(str)
        neg == s1 # <<>> /\ Head(s1) = "-"
        s2 == IF s1 # <<>> /\ Head(s1) \in {"+", "-"} THEN Tail(s1) ELSE s1
        hex == Len(s2) >= 2 /\ s2[1] = "0" /\ s2[2] \in {"x", "X"}
        p == IF hex THEN ParseDigits(Tail(Tail(s2)), 16, 0, FALSE)
                    ELSE ParseDigits(s2, 10, 0, FALSE)
    IN IF p.nan THEN NaN ELSE [nan |-> FALSE, n |-> IF neg THEN 0 - p.n ELSE p.n]

\* a <= b on numbers: false when either is NaN
LessEq(a, b) == ~a.nan /\ ~b.nan /\ a.n <= b.n

\* the default of the destructuring: q = 'technik'
Technik == <<"t", "e", "c", "h", "n", "i", "k">>

\* the mock listings; only the fields the filters read are kept
mockResults ==
    <<[id |-> "1",
       title |-> <<"i", "P", "h", "o", "n", "e", " ", "1", "3", " ", "P", "r", "o",
                  " ", "1", "2", "8", "G", "B", " ", "S", "p", "a", "c", "e", " ",
                  "G", "r", "a", "y">>,
       price |-> <<"EUR", " ", "6", "5", "0">>],
      [id |-> "2",
       title |-> <<"S", "a", "m", "s", "u", "n", "g", " ", "G", "a", "l", "a", "x",
                  "y", " ", "S", "2", "3", " ", "U", "l", "t", "r", "a", " ", "2",
                  "5", "6", "G", "B">>,
       price |-> <<"EUR", " ", "8", "0", "0">>],
      [id |-> "3",
       title |-> <<"M", "a", "c", "B", "o", "o", "k", " ", "A", "i", "r", " ", "M",
                  "2", " ", "1", "3", "\"", " ", "2", "5", "6", "G", "B">>,
       price |-> <<"EUR", " ", "1", ".", "2", "0", "0">>],
      [id |-> "4",
       title |-> <<"N", "i", "n", "t", "e", "n", "d", "o", " ", "S", "w", "i", "t",
                  "c", "h", " ", "O", "L", "E", "D", " ", "+", " ", "S", "p", "i",
                  "e", "l", "e">>,
       price |-> <<"EUR", " ", "2", "8", "0">>],
      [id |-> "5",
       title |-> <<"G", "a", "m", "i", "n", "g", " ", "P", "C", " ", "R", "T", "X",
                  " ", "4", "0", "7", "0", " ", "+", " ", "A", "M", "D", " ", "R",
                  "y", "z", "e", "n", " ", "7">>,
       price |-> <<"EUR", " ", "1", ".", "5", "0", "0">>]>>

\* the values of the query parameter q that are tried
QValues ==
    {<<>>,
     <<"t", "e", "c", "h", "n", "i", "k">>,
     <<"T", "e", "c", "h", "n", "i", "k">>,
     <<"i", "p", "h", "o", "n", "e">>,
     <<"G", "B">>,
     <<"2", "5", "6", "g", "b">>,
     <<"p", "r", "o">>,
     <<"x", "y", "z">>,
     <<"+", " ">>}

\* the values of the query parameter priceMax that are tried
PriceMaxValues ==
    {<<>>,
     <<"0">>,
     <<"2", "7", "9">>,
     <<"2", "8", "0">>,
     <<"6", "5", "0">>,
     <<"0", "8", "0", "0">>,
     <<"1", "2", "0", "0">>,
     <<"1", "4", "9", "9">>,
     <<"1", "5", "0", "0">>,
     <<"2", "0", "0", "0">>,
     <<"a", "b", "c">>,
     <<"9", "9", "x">>,
     <<" ", "6", "5", "0">>,
     <<"-", "5">>,
     <<"0", "x", "3", "2", "0">>}

Queries ==
    [hasQ : BOOLEAN, q : QValues, hasPriceMax : BOOLEAN, priceMax : PriceMaxValues]

NoQuery == [hasQ |-> FALSE, q |-> <<>>, hasPriceMax |-> FALSE, priceMax |-> <<>>]
NoResponse == [status |-> 0, success |-> FALSE, count |-> 0, results |-> <<>>]

\* variant: return price < maxPrice
PriceBelowMax(price, maxPrice) ==
    ~price.nan /\ ~maxPrice.nan /\ price.n < maxPrice.n

\* return price <= maxPrice
PriceWithinMax(price, maxPrice) == LessEq(price, maxPrice)

\* mockResults.filter(item => parseInt(item.price.replace(...)) <= maxPrice)
FilterByPrice(items, priceMax) ==
    LET maxPrice == ParseInt(priceMax)
        Keep(item) == PriceWithinMax(ParseInt(StripNonDigits(item.price)), maxPrice)
    IN SelectSeq(items, Keep)

\* filteredResults.filter(item => item.title.toLowerCase().includes(q.toLowerCase()))
FilterByTitle(items, q) ==
    LET Keep(item) == Includes(ToLowerCase(item.title), ToLowerCase(q))
    IN SelectSeq(items, Keep)

\* the two filters of the handler, in its order
FilteredResults(rq) ==
    LET q == IF rq.hasQ THEN rq.q ELSE Technik
        byPrice == IF rq.hasPriceMax /\ rq.priceMax # <<>>
                   THEN FilterByPrice(mockResults, rq.priceMax)
                   ELSE mockResults
    IN IF q # <<>> /\ q # Technik THEN FilterByTitle(byPrice, q) ELSE byPrice

\* app.get('/search', ...): one request handled, res.json(...) sent.
\* locationName, distance and sortBy only enter searchUrl, which is logged.
Search ==
    \E rq \in Queries :
        /\ rq.hasQ \/ rq.q = <<>>
        /\ rq.hasPriceMax \/ rq.priceMax = <<>>
        /\ query' = rq
        /\ LET filteredResults == FilteredResults(rq)
           IN res' = [status |-> 200,
                      success |-> TRUE,
                      count |-> Len(filteredResults),
                      results |-> filteredResults]
        /\ UNCHANGED reqVars

---------------------------------------------------------------------------
Init ==
    /\ pc = [c \in Calls |-> "idle"]
    /\ url = [c \in Calls |-> "wellformed"]
    /\ retries = [c \in Calls |-> DefaultRetries]
    /\ i = [c \in Calls |-> 0]
    /\ attempts = [c \in Calls |-> 0]
    /\ inflight = [c \in Calls |-> 0]
    /\ timers = [c \in Calls |-> 0]
    /\ delays = [c \in Calls |-> <<>>]
    /\ lastResult = [c \in Calls |-> None]
    /\ outcome = [c \in Calls |-> Pending]
    /\ query = NoQuery
    /\ res = NoResponse

\* one step of call c
CallNext(c) ==
    \/ Invoke(c)
    \/ Issue(c)
    \/ FallOut(c)
    \/ Resolve(c)
    \/ Reject(c)
    \/ TimerFire(c)

Next == \E c \in Calls : CallNext(c)

Spec == Init /\ [][Next]_vars

\* The calls that run in the specification with fairness: two concurrent
\* calls, whatever NumCalls is.
LiveCalls == {c \in Calls : c <= 2}

LiveNext == \E c \in LiveCalls : CallNext(c)

\* every issued request completes or times out, every timer fires, and the
\* event loop runs every continuation that is ready
Fairness ==
    \A c \in LiveCalls :
        /\ WF_vars(Issue(c))
        /\ WF_vars(FallOut(c))
        /\ WF_vars(Resolve(c) \/ Reject(c))
        /\ WF_vars(TimerFire(c))

LiveSpec == Init /\ [][LiveNext]_vars /\ Fairness

SearchNext == Search

SearchSpec == Init /\ [][SearchNext]_vars

---------------------------------------------------------------------------
(* Properties of makeRequest *)

Done(c) == pc[c] = "done"
Failed(c) == outcome[c].kind = "thrown"
Succeeded(c) == outcome[c].kind = "returned" /\ outcome[c].attempt >= 1

\* C1 as stated: when every one of the n >= 1 attempts fails with a transport
\* error, exactly n requests are issued and the call fails with an
\* ExhaustedRetriesError whose cause is the error of the n-th attempt.
C1_ExhaustedRetriesError ==
    \A c \in Calls :
        (Done(c) /\ retries[c] >= 1 /\ Failed(c) /\ lastResult[c].type = "error")
            => /\ attempts[c] = retries[c]
               /\ outcome[c].error.name = "ExhaustedRetriesError"
               /\ outcome[c].error.cause.attempt = retries[c]

\* C1 (amended): for n = retries >= 1, a call never issues more than n requests;
\* once the n-th attempt has failed the call has failed, and a failed call has
\* issued exactly n requests and throws the error of the n-th attempt itself,
\* an AxiosError carrying that attempt's failure code, with no wrapper.
C1_LastErrorRethrown ==
    \A c \in Calls :
        retries[c] >= 1 =>
            /\ attempts[c] <= retries[c]
            /\ (attempts[c] = retries[c] /\ pc[c] # "await_get"
                    /\ lastResult[c] # None /\ ~Resolves(lastResult[c]))
                  => (Done(c) /\ Failed(c))
            /\ (Done(c) /\ Failed(c))
                  => /\ attempts[c] = retries[c]
                     /\ inflight[c] = 0
                     /\ outcome[c].error.name = "AxiosError"
                     /\ outcome[c].error.attempt = retries[c]
                     /\ lastResult[c].type = "error"
                           => outcome[c].error.code = lastResult[c].code

C1_Witness ==
    \E c \in Calls :
        /\ Done(c) /\ Failed(c)
        /\ retries[c] = 3 /\ attempts[c] = 3
        /\ lastResult[c] = NetError("ECONNABORTED")

\* C2: when attempt k succeeds after k-1 failed attempts, the call returns
\* exactly the payload of attempt k, and attempt k is the last request issued.
C2_ReturnsPayloadOfSuccess ==
    \A c \in Calls :
        Succeeded(c) =>
            /\ Done(c)
            /\ Resolves(lastResult[c])
            /\ outcome[c].value = lastResult[c].data
            /\ outcome[c].attempt = attempts[c]
            /\ attempts[c] <= retries[c]
            /\ Len(delays[c]) = attempts[c] - 1
            /\ inflight[c] = 0 /\ timers[c] = 0

C2_Witness ==
    \E c \in Calls :
        /\ Succeeded(c)
        /\ retries[c] = 3 /\ attempts[c] = 2
        /\ outcome[c].value = "d2"

\* C3 as stated: a call with maxAttempts <= 0 or with a malformed target fails
\* with a ConfigurationError and issues no request.
C3_ConfigurationError ==
    \A c \in Calls :
        (Done(c) /\ (retries[c] <= 0 \/ url[c] = "malformed"))
            => /\ Failed(c)
               /\ outcome[c].error.name = "ConfigurationError"
               /\ attempts[c] = 0

\* C4 as stated: an attempt that obtains an HTTP response, whatever its
\* status, ends the call with that response's payload; only transport-level
\* failures are followed by a further attempt.
C4_AnyStatusIsSuccess ==
    \A c \in Calls :
        /\ lastResult[c].type = "response"
              => (Done(c) /\ Succeeded(c) /\ outcome[c].value = lastResult[c].data)
        /\ pc[c] = "await_timer" => lastResult[c].type = "error"

\* C4 (amended): an attempt that obtains a response with a 2xx status ends the
\* call with that response's payload; a response with any other status is
\* treated like a transport-level failure: it is never returned, and a further
\* attempt follows unless it was the last one, in which case the call fails.
C4_Only2xxIsSuccess ==
    \A c \in Calls :
        /\ (lastResult[c].type = "response" /\ lastResult[c].status \in 200..299)
              => (Done(c) /\ Succeeded(c) /\ outcome[c].value = lastResult[c].data)
        /\ (lastResult[c].type = "response" /\ lastResult[c].status \notin 200..299)
              => /\ ~Succeeded(c)
                 /\ IF attempts[c] < retries[c]
                    THEN pc[c] = "await_timer" /\ timers[c] = 1
                    ELSE Done(c) /\ Failed(c)
        /\ pc[c] = "await_timer" => lastResult[c].type \in {"error", "response"}

C4_Witness ==
    \E c \in Calls :
        /\ pc[c] = "await_timer"
        /\ lastResult[c].type = "response"
        /\ lastResult[c].status = 404

\* C5: the delay set after failed attempt j is 1000 ms * j; a call that has
\* ended after m >= 1 attempts has set exactly m - 1 delays, and a delay is
\* only set when a further attempt follows.
C5_LinearBackoff ==
    \A c \in Calls :
        /\ \A j \in 1..Len(delays[c]) : delays[c][j] = 1000 * j
        /\ \A j \in 1..(Len(delays[c]) - 1) :
              delays[c][j] >= 0 /\ delays[c][j] < delays[c][j + 1]
        /\ pc[c] = "await_get" => Len(delays[c]) = attempts[c] - 1
        /\ pc[c] = "await_timer" =>
              (Len(delays[c]) = attempts[c] /\ attempts[c] < retries[c])
        /\ (pc[c] = "loop" /\ attempts[c] > 0) =>
              (Len(delays[c]) = attempts[c] /\ attempts[c] < retries[c])
        /\ (Done(c) /\ attempts[c] >= 1) => Len(delays[c]) = attempts[c] - 1
        /\ attempts[c] = 0 => delays[c] = <<>>

C5_Witness ==
    \E c \in Calls :
        /\ Succeeded(c)
        /\ retries[c] = 3 /\ attempts[c] = 3
        /\ delays[c] = <<1000, 2000>>

\* C6: no error is delivered before the call has ended; a call that fails has
\* issued attempt number retries, and the error it delivers was created by that
\* attempt, not by an earlier one.
C6_OnlyFinalErrorEscapes ==
    \A c \in Calls :
        /\ ~Done(c) => outcome[c] = Pending
        /\ Failed(c) =>
              /\ Done(c)
              /\ retries[c] >= 1
              /\ attempts[c] = retries[c]
              /\ outcome[c].error.attempt = attempts[c]
              /\ outcome[c].error = ErrorOf(lastResult[c], retries[c])

C6_Witness ==
    \E c \in Calls :
        /\ Done(c) /\ Failed(c)
        /\ retries[c] = 2
        /\ outcome[c].error.attempt = 2
        /\ Len(delays[c]) = 1

\* C7: a call has at most one request in flight and at most one timer pending,
\* never both; a request is only issued when no request of the call is in
\* flight, every timer of the call has fired, and every earlier attempt was
\* followed by its delay.
C7_Sequential ==
    /\ [](\A c \in Calls :
            /\ inflight[c] \in {0, 1}
            /\ timers[c] \in {0, 1}
            /\ inflight[c] + timers[c] <= 1
            /\ inflight[c] = 1 <=> pc[c] = "await_get"
            /\ timers[c] = 1 <=> pc[c] = "await_timer")
    /\ [][\A c \in Calls :
            attempts'[c] # attempts[c] =>
                /\ attempts'[c] = attempts[c] + 1
                /\ inflight[c] = 0
                /\ timers[c] = 0
                /\ Len(delays[c]) = attempts[c]
                /\ lastResult[c] = None]_vars

C7_Witness ==
    \E c \in Calls :
        /\ pc[c] = "await_get"
        /\ attempts[c] = 3
        /\ delays[c] = <<1000, 2000>>

\* the part of the state that belongs to call c
CallState(c) ==
    <<pc[c], url[c], retries[c], i[c], attempts[c], inflight[c], timers[c],
      delays[c], lastResult[c], outcome[c]>>

\* C8: a step of one call leaves the state of every other call unchanged; the
\* number of attempts, the delays and the outcome of a call are a function of
\* its own retries and its own transport results; and while one call waits for
\* its timer, any other call that is ready to issue a request can issue it,
\* and any other call whose request is in flight can have it settled.
C8_Independent ==
    /\ [][\A c, d \in Calls :
            (c # d /\ CallState(c)' # CallState(c)) => CallState(d)' = CallState(d)]_vars
    /\ [](\A c \in Calls :
            Done(c) =>
                outcome[c] =
                    IF attempts[c] = 0 THEN Returned("undefined", 0)
                    ELSE IF lastResult[c].type = "response"
                            /\ lastResult[c].status \in 200..299
                         THEN Returned(lastResult[c].data, attempts[c])
                         ELSE Thrown(ErrorOf(lastResult[c], retries[c])))
    /\ [](\A c, d \in Calls :
            (c # d /\ pc[c] = "await_timer") =>
                /\ (pc[d] = "idle") => ENABLED Invoke(d)
                /\ (pc[d] = "loop" /\ i[d] < retries[d]) => ENABLED Issue(d)
                /\ (pc[d] = "await_get") => ENABLED (Resolve(d) \/ Reject(d))
                /\ (pc[d] = "await_timer") => ENABLED TimerFire(d))

C8_Witness ==
    \E c, d \in Calls :
        /\ c # d
        /\ pc[c] = "await_timer" /\ attempts[c] = 1
        /\ Done(d) /\ attempts[d] = 3 /\ Succeeded(d)

\* C9: a call with retries >= 1 that has started eventually ends; it never
\* issues more than retries requests, and it ends either returning a response
\* payload or throwing an error, never returning undefined.
C9_Terminates ==
    /\ \A c \in Calls : (pc[c] # "idle" /\ retries[c] >= 1) ~> Done(c)
    /\ [](\A c \in Calls :
            retries[c] >= 1 =>
                /\ attempts[c] <= retries[c]
                /\ Done(c) =>
                      \/ outcome[c].kind = "returned" /\ outcome[c].value \in DataSet
                      \/ outcome[c].kind = "thrown"
                /\ ~Done(c) => outcome[c] = Pending)

C9_Witness ==
    \E c \in Calls :
        /\ Done(c)
        /\ retries[c] = 3 /\ attempts[c] = 3
        /\ Failed(c)

---------------------------------------------------------------------------
(* Properties of GET /search *)

\* the prices of the five listings as numbers
ListedPrice == <<650, 800, 1200, 280, 1500>>

\* s is a non-empty string of decimal digits
IsNumeral(s) == s # <<>> /\ \A k \in 1..Len(s) : IsDigit(s[k])

RECURSIVE NumeralValue(_)
\* the number a string of decimal digits denotes
NumeralValue(s) ==
    IF s = <<>> THEN 0
    ELSE 10 * NumeralValue(SubSeq(s, 1, Len(s) - 1))
         + (CHOOSE d \in 0..9 : DecDigits[d + 1] = s[Len(s)])

\* whether listing k is to be in the results of request rq
Wanted(k, rq) ==
    /\ rq.hasPriceMax => ListedPrice[k] <= NumeralValue(rq.priceMax)
    /\ (rq.hasQ /\ rq.q # Technik) =>
          Includes(ToLowerCase(mockResults[k].title), ToLowerCase(rq.q))

\* the listings wanted for rq, in the order of mockResults
WantedResults(rq) ==
    LET Keep(k) == Wanted(k, rq)
        idx == SelectSeq(<<1, 2, 3, 4, 5>>, Keep)
    IN [j \in 1..Len(idx) |-> mockResults[idx[j]]]

====
